---- MODULE Spec2Model ----
(***************************************************************************)
(* The per-node-group upgrade state machine of the elasticsearch operator  *)
(* (statefulSetNode): partition control, membership waits, the three       *)
(* entry points rollingRestart, fullClusterRestart and update, and the     *)
(* object store / cluster oracle they talk to.                             *)
(*                                                                         *)
(* Every call is cut into steps at its API calls, oracle queries and       *)
(* blocking waits; pc names the step the running call is at ("idle"        *)
(* between calls) and stack holds the return labels of nested calls.       *)
(* Between two steps of a call other writers of the live object may act.   *)
(***************************************************************************)
EXTENDS Integers, Sequences, FiniteSets, TLC

\* ------------------------------------------------------------------ bounds
MaxReplicas == 3
MaxNodes == 2

\* retry.DefaultRetry.Steps: the attempts RetryOnConflict makes
DefaultRetrySteps == 5

\* ------------------------------------------------------------- vocabulary
ConditionTrue == "True"
PhaseEmpty == ""
NodeRestarting == "nodeRestarting"
RecoveringData == "recoveringData"
ControllerUpdated == "controllerUpdated"

HealthStatuses == {"green", "yellow", "red", ""}
Templates == {"old", "new", "empty"}
\* The content hashes getConfigmapDataHash and getSecretDataHash can answer:
\* the configmap and the secret keep their content here, so one value each.
\* NoHash is the hash of a handle that has taken none yet.
HashValues == {"hash"}
NoHash == ""
\* A nil *int32 of a StatefulSetSpec without content.
NilReplicas == -1
\* The pod template of apps.StatefulSet{}.
EmptyTemplate == "empty"

VARIABLES
    live,           \* the StatefulSet held by the API server
    self,           \* node.self: the handle's copy of the StatefulSet
    clusterSize,    \* node.clusterSize
    configmapHash,  \* node.configmapHash
    secretHash,     \* node.secretHash
    UnderUpgrade,   \* upgradeStatus.UpgradeStatus.UnderUpgrade
    UpgradePhase,   \* upgradeStatus.UpgradeStatus.UpgradePhase
    pc,             \* step of the running call
    stack,          \* return labels of the calls in progress
    loc,            \* locals of the running call
    h               \* history of the running call (observation only)

vars == <<live, self, clusterSize, configmapHash, secretHash, UnderUpgrade,
          UpgradePhase, pc, stack, loc, h>>

handle == <<self, clusterSize, configmapHash, secretHash>>
upgradeStatus == <<UnderUpgrade, UpgradePhase>>

\* ------------------------------------------------- the object store (API)
\* What client.Get can answer for the node group's object.
GetOutcomes == IF live.exists THEN {"ok", "api"} ELSE {"notfound", "api"}

\* What client.Update can answer for the object the handle holds: a write
\* based on a resourceVersion that is no longer the live one is a Conflict.
UpdateOutcomes ==
    IF ~live.exists THEN {"notfound", "api"}
    ELSE IF self.rv # "cur" THEN {"conflict", "api"}
    ELSE {"ok", "api"}

\* The object a successful Get copies into its target.
Fetched ==
    [rv |-> "cur", partition |-> live.partition, replicas |-> live.replicas,
     template |-> live.template]

\* The live object after the API server accepted Update(obj): the spec is
\* replaced, the status is the controller's.
Stored(obj) ==
    [live EXCEPT !.partition = obj.partition, !.replicas = obj.replicas,
                 !.template = obj.template]

\* The handle's copy once somebody else wrote the live object.
Outdated(obj) == IF obj.rv = "cur" THEN [obj EXCEPT !.rv = "old"] ELSE obj

Gone ==
    [exists |-> FALSE, partition |-> 0, replicas |-> 1, statusReplicas |-> 0,
     template |-> "old"]

\* ------------------------------------------------------ the cluster oracle
\* GetClusterNodeCount: a node count, or a failed query (count 0 and an error).
NodeCountOutcomes ==
    {[ok |-> TRUE, n |-> c] : c \in 0..MaxNodes} \cup {[ok |-> FALSE, n |-> 0]}

\* ------------------------------------------------------------ the history
\* prev: the setter call that returned nil right before this call, with
\* nothing acting in between (the caller made the two calls back to back).
NoSetter == [field |-> "none", n |-> -1]

\* cr: the create() of the call: whether node.self had a ResourceVersion,
\* what its Create call answered ("none": not issued), whether it called
\* scale(), and what it returned.
NoCreate == [rv |-> "none", call |-> "none", scaled |-> FALSE, ret |-> "none"]

\* poll: the poll that ended the membership wait the call just left: the wait,
\* whether the poll's node-count query succeeded, and the count it used.
NoPoll == [kind |-> "none", ok |-> TRUE, n |-> 0]

NoHistory ==
    [ep |-> "none", entryUnder |-> "", entryPhase |-> "", entryPart |-> 0,
     wrote |-> FALSE, extWrote |-> FALSE, hSeen |-> "none",
     countFailed |-> FALSE, replicasFailed |-> FALSE,
     retAt |-> "", ret |-> "none", clean |-> TRUE, trace |-> <<>>,
     spLog |-> <<>>, pushed |-> "none", started |-> FALSE,
     timedOut |-> "none", fetched |-> FALSE, cr |-> NoCreate, poll |-> NoPoll,
     startPart |-> -1, cycleSize |-> -1, del |-> -1,
     stepPart |-> -1, prev |-> NoSetter, arg |-> -1, res |-> -1]

\* The history at the start of a call of ep; for a call of an entry point
\* of the upgrade state machine, with the status and partition it found.
\* cycleSize, the node count the start block of the upgrade cycle stored in
\* node.clusterSize, is the one entry kept from call to call.
Kept == [NoHistory EXCEPT !.cycleSize = h.cycleSize]

Entered(ep) == [Kept EXCEPT !.ep = ep]

EnteredUpgrade(ep) ==
    [Kept EXCEPT
        !.ep = ep, !.entryUnder = UnderUpgrade, !.entryPhase = UpgradePhase,
        !.entryPart = live.partition]

\* The setter call this call follows back to back, if it does.
Previous ==
    IF pc = "done" /\ h.ret = "nil" /\ h.ep = "setPartition"
        THEN [field |-> "partition", n |-> h.arg]
    ELSE IF pc = "done" /\ h.ret = "nil" /\ h.ep = "setReplicaCount"
        THEN [field |-> "replicas", n |-> h.arg]
    ELSE NoSetter

\* A getter may be called in a new pass or right after another call.
CanCall == pc \in {"idle", "done"}

Returned(hh, at, ret) == [hh EXCEPT !.retAt = at, !.ret = ret]

NoLocals == [index |-> 0, size |-> 0, n |-> 0, nretries |-> -1, err |-> "nil"]

\* The locals once a callee's result was used: its frame is gone.
Popped(l) == [l EXCEPT !.n = 0, !.nretries = -1, !.err = "nil"]

\* The locals of a setter called with target n.
SetterLocals(l, n) == [l EXCEPT !.n = n, !.nretries = -1, !.err = "nil"]

Running == pc \notin {"idle", "done"}

Event(e, v) == [e |-> e, v |-> v]

\* trace: the events of the call in their order, recorded as long as every
\* query, wait and API call of the call succeeded and no other writer acted
\* (clean); after that the trace is dropped.
Saw(hh, e, v) ==
    IF hh.clean THEN [hh EXCEPT !.trace = Append(@, Event(e, v))] ELSE hh

Spoiled(hh) == [hh EXCEPT !.clean = FALSE, !.trace = <<>>]

\* The history once the poll with query outcome o ended a wait.
Polled(hh, kind, o) ==
    [hh EXCEPT !.poll = [kind |-> kind, ok |-> o.ok, n |-> o.n]]

\* The history once the step after a wait is taken.
Moved(hh) == [hh EXCEPT !.poll = NoPoll]

\* The history once another writer wrote the live object.
Disturbed(hh) ==
    IF Running THEN Spoiled([hh EXCEPT !.extWrote = TRUE]) ELSE hh


\* ------------------------------------------------------------------- Init
\* The pod template newPodTemplateSpec builds for the node group.
DesiredTemplate == "new"

populated(d) ==
    [rv |-> "", partition |-> 0, replicas |-> d, template |-> DesiredTemplate]

Init ==
    /\ \E r \in 1..MaxReplicas :
         live = [exists |-> TRUE, partition |-> 0, replicas |-> r,
                 statusReplicas |-> r, template |-> "old"]
    /\ \E d \in 1..MaxReplicas : self = populated(d)
    /\ clusterSize = 0
    /\ configmapHash = NoHash
    /\ secretHash = NoHash
    /\ UnderUpgrade = ""
    /\ UpgradePhase = PhaseEmpty
    /\ pc = "idle"
    /\ stack = <<>>
    /\ loc = NoLocals
    /\ h = NoHistory

\* ------------------------------------------------------ the other writers
\* Another client edits the live object (its rollout partition).
ExternalEdit ==
    /\ pc # "done"
    /\ live.exists
    /\ \E p \in 0..MaxReplicas :
         /\ p # live.partition
         /\ live' = [live EXCEPT !.partition = p]
    /\ self' = Outdated(self)
    /\ h' = Disturbed(h)
    /\ UNCHANGED <<clusterSize, configmapHash, secretHash, upgradeStatus, pc,
                   stack, loc>>

\* The StatefulSet controller brings Status.Replicas to Spec.Replicas.
ControllerSync ==
    /\ pc # "done"
    /\ live.exists
    /\ live.statusReplicas # live.replicas
    /\ live' = [live EXCEPT !.statusReplicas = live.replicas]
    /\ self' = Outdated(self)
    /\ h' = Disturbed(h)
    /\ UNCHANGED <<clusterSize, configmapHash, secretHash, upgradeStatus, pc,
                   stack, loc>>

\* Another client deletes the live object.
ExternalDelete ==
    /\ pc # "done"
    /\ live.exists
    /\ live' = Gone
    /\ self' = Outdated(self)
    /\ h' = Disturbed(h)
    /\ UNCHANGED <<clusterSize, configmapHash, secretHash, upgradeStatus, pc,
                   stack, loc>>

\* Another client creates the object (the race create() allows for).
ExternalCreate ==
    /\ pc # "done"
    /\ ~live.exists
    /\ \E r \in 1..MaxReplicas :
         live' = [exists |-> TRUE, partition |-> 0, replicas |-> r,
                  statusReplicas |-> 0, template |-> "old"]
    /\ self' = Outdated(self)
    /\ h' = Disturbed(h)
    /\ UNCHANGED <<clusterSize, configmapHash, secretHash, upgradeStatus, pc,
                   stack, loc>>

\* ------------------------------------------------ setPartition, setReplicaCount
\* The attempts of a setter are logged when the reconciler called it.
Logged(hh, log) ==
    IF hh.ep \in {"setPartition", "setReplicaCount"}
    THEN [hh EXCEPT !.spLog = Append(@, log)] ELSE hh

\* The history at the return of a setter of `field` with target n.
SetterDone(hh, field, n, err, log) ==
    LET h1 == Logged(hh, log)
        h2 == IF err # "nil" THEN Spoiled(h1)
              ELSE IF field = "partition" THEN Saw(h1, "setPartition", n)
              ELSE h1
    IN  IF Head(stack) = "done"
        THEN Returned(h2, "end", IF err = "nil" THEN "nil" ELSE "err")
        ELSE h2

\* One attempt's Get and compare (the closure handed to RetryOnConflict, up
\* to its Update): nretries++, fetch into node.self, return nil when the
\* field already has the value, else set it in node.self.
SetterGet(field, updLabel) ==
    \E o \in GetOutcomes :
      LET l1 == [loc EXCEPT !.nretries = @ + 1] IN
      IF o # "ok" THEN
          /\ loc' = [l1 EXCEPT !.err = o]
          /\ pc' = Head(stack)
          /\ stack' = Tail(stack)
          /\ h' = SetterDone(Moved(h), field, loc.n, o, "get_err")
          /\ UNCHANGED <<live, self>>
      ELSE IF Fetched[field] = loc.n THEN
          /\ loc' = [l1 EXCEPT !.err = "nil"]
          /\ self' = Fetched
          /\ pc' = Head(stack)
          /\ stack' = Tail(stack)
          /\ h' = SetterDone(Moved(h), field, loc.n, "nil", "same")
          /\ UNCHANGED live
      ELSE
          /\ loc' = l1
          /\ self' = [Fetched EXCEPT ![field] = loc.n]
          /\ pc' = updLabel
          /\ h' = [Logged(Moved(h), "get_ok") EXCEPT !.fetched = TRUE]
          /\ UNCHANGED <<live, stack>>

\* SetterUpdate with a wrapper that repeats an attempt on any error.
SetterUpdate_RetriesAll(field, getLabel) ==
    \E o \in UpdateOutcomes :
      LET h1 == [h EXCEPT !.wrote = TRUE, !.fetched = FALSE] IN
      IF o = "ok" THEN
          /\ live' = Stored(self)
          /\ loc' = [loc EXCEPT !.err = "nil"]
          /\ pc' = Head(stack)
          /\ stack' = Tail(stack)
          /\ h' = SetterDone(h1, field, loc.n, "nil", "upd_ok")
          /\ UNCHANGED self
      ELSE IF loc.nretries + 1 < DefaultRetrySteps THEN
          /\ pc' = getLabel
          /\ h' = Logged(h1, IF o = "conflict" THEN "upd_conflict" ELSE "upd_err")
          /\ UNCHANGED <<live, self, loc, stack>>
      ELSE
          /\ loc' = [loc EXCEPT !.err = o]
          /\ pc' = Head(stack)
          /\ stack' = Tail(stack)
          /\ h' = SetterDone(h1, field, loc.n, o,
                             IF o = "conflict" THEN "upd_conflict" ELSE "upd_err")
          /\ UNCHANGED <<live, self>>

\* The attempt's Update of node.self, and RetryOnConflict's decision: nil ends
\* the call, a Conflict is retried while attempts are left, any other error
\* ends the call.
SetterUpdate(field, getLabel) ==
    \E o \in UpdateOutcomes :
      LET h1 == [h EXCEPT !.wrote = TRUE, !.fetched = FALSE] IN
      IF o = "ok" THEN
          /\ live' = Stored(self)
          /\ loc' = [loc EXCEPT !.err = "nil"]
          /\ pc' = Head(stack)
          /\ stack' = Tail(stack)
          /\ h' = SetterDone(h1, field, loc.n, "nil", "upd_ok")
          /\ UNCHANGED self
      ELSE IF o = "conflict" /\ loc.nretries + 1 < DefaultRetrySteps THEN
          /\ pc' = getLabel
          /\ h' = Logged(h1, "upd_conflict")
          /\ UNCHANGED <<live, self, loc, stack>>
      ELSE
          /\ loc' = [loc EXCEPT !.err = o]
          /\ pc' = Head(stack)
          /\ stack' = Tail(stack)
          /\ h' = SetterDone(h1, field, loc.n, o,
                             IF o = "conflict" THEN "upd_conflict" ELSE "upd_err")
          /\ UNCHANGED <<live, self>>

\* setPartition_Get with the replica count compared and set.
setPartition_Get_Replicas ==
    /\ pc = "sp_get"
    /\ SetterGet("replicas", "sp_update")
    /\ UNCHANGED <<clusterSize, configmapHash, secretHash, upgradeStatus>>

setPartition_Get ==
    /\ pc = "sp_get"
    /\ SetterGet("partition", "sp_update")
    /\ UNCHANGED <<clusterSize, configmapHash, secretHash, upgradeStatus>>

setPartition_Update ==
    /\ pc = "sp_update"
    /\ SetterUpdate("partition", "sp_get")
    /\ UNCHANGED <<clusterSize, configmapHash, secretHash, upgradeStatus>>

setReplicaCount_Get ==
    /\ pc = "sr_get"
    /\ SetterGet("replicas", "sr_update")
    /\ UNCHANGED <<clusterSize, configmapHash, secretHash, upgradeStatus>>

setReplicaCount_Update ==
    /\ pc = "sr_update"
    /\ SetterUpdate("replicas", "sr_get")
    /\ UNCHANGED <<clusterSize, configmapHash, secretHash, upgradeStatus>>

\* ------------------------------------------------------- membership waits
\* waitForNodeRejoinCluster, by the outcome o of the node-count query of the
\* poll that decides it: the closure never returns the query's error (the
\* err it tests is its own, still nil, result), so a poll is done exactly
\* when node.clusterSize <= the count it got.  TRUE: (nil, true); FALSE: no
\* poll was done within the 60 s, (timeout error, false).
waitForNodeRejoinCluster(o) == clusterSize <= o.n

\* waitForNodeLeaveCluster: done when node.clusterSize > the count it got.
waitForNodeLeaveCluster(o) == clusterSize > o.n

\* -------------------------------------------------- steps of the entry points
\* The history once the start block is over: the partition found at entry
\* is kept for the start block only.
Started(hh) == [hh EXCEPT !.entryPart = -1, !.started = TRUE]

\* The call returns at `at` with result r.
Return(hh, at, r) ==
    /\ pc' = "done"
    /\ stack' = <<>>
    /\ h' = Returned(hh, at, r)

\* The phase block that follows the start block: an idle phase becomes
\* NodeRestarting.
PhaseEntered(phase) ==
    IF phase = PhaseEmpty \/ phase = ControllerUpdated THEN NodeRestarting
    ELSE phase

\* ordinal, err := node.partition(), and the loop's first test of index > 0.
ReadOrdinal(loopLabel, finalLabel, r) ==
    /\ \E o \in GetOutcomes :
         IF o # "ok" THEN
             /\ Return(Spoiled(h), "ordinal", r)
             /\ UNCHANGED loc
         ELSE
             /\ loc' = [loc EXCEPT !.index = live.partition]
             /\ pc' = IF live.partition > 0 THEN loopLabel ELSE finalLabel
             /\ h' = [h EXCEPT !.stepPart = live.partition]
             /\ UNCHANGED stack
    /\ UNCHANGED <<live, handle, upgradeStatus>>

\* WaitRejoin with the timeout only logged: the call goes on.
WaitRejoin_GoesOn(at, okLabel, r) ==
    /\ \E o \in NodeCountOutcomes :
         /\ pc' = okLabel
         /\ h' = IF waitForNodeRejoinCluster(o)
                     THEN Polled(Saw(h, "rejoin", 0), "rejoin", o)
                 ELSE Spoiled(Moved([h EXCEPT !.timedOut = at]))
         /\ UNCHANGED stack
    /\ UNCHANGED <<live, handle, upgradeStatus, loc>>

\* A rejoin wait of the loop or after it; on a timeout the call returns.
WaitRejoin(at, okLabel, r) ==
    /\ \E o \in NodeCountOutcomes :
         IF waitForNodeRejoinCluster(o) THEN
             /\ pc' = okLabel
             /\ h' = Polled(Saw(h, "rejoin", 0), "rejoin", o)
             /\ UNCHANGED stack
         ELSE
             Return(Spoiled(Moved([h EXCEPT !.timedOut = at])), at, r)
    /\ UNCHANGED <<live, handle, upgradeStatus, loc>>

\* DeletePod of the pod with ordinal index-1; on an error the call returns.
DeleteIndexPod(okLabel) ==
    /\ \E o \in {"ok", "err"} :
         LET h1 == [Moved(h) EXCEPT !.wrote = TRUE] IN
         IF o = "ok" THEN
             /\ pc' = okLabel
             /\ h' = Saw(h1, "delete", loc.index - 1)
             /\ UNCHANGED stack
         ELSE
             Return(Spoiled(h1), "delete", "none")
    /\ UNCHANGED <<live, handle, upgradeStatus, loc>>

\* The leave wait of a restart, then setPartition(index - 1).
WaitLeaveThenSet(nextLabel) ==
    /\ \E o \in NodeCountOutcomes :
         IF waitForNodeLeaveCluster(o) THEN
             /\ pc' = "sp_get"
             /\ stack' = <<nextLabel>>
             /\ loc' = SetterLocals(loc, loc.index - 1)
             /\ h' = Polled(Saw(h, "leave", 0), "leave", o)
         ELSE
             /\ Return(Spoiled(Moved([h EXCEPT !.timedOut = "leave"])), "leave", "none")
             /\ UNCHANGED loc
    /\ UNCHANGED <<live, handle, upgradeStatus>>

\* index--, and the loop's test of index > 0 (the setter's error was logged).
NextIndex(loopLabel, finalLabel) ==
    /\ loc' = [Popped(loc) EXCEPT !.index = @ - 1]
    /\ pc' = IF loc.index - 1 > 0 THEN loopLabel ELSE finalLabel
    /\ h' = [h EXCEPT !.stepPart = live.partition]
    /\ UNCHANGED <<live, handle, upgradeStatus, stack>>

\* refreshHashes, then UpgradePhase = RecoveringData.
RefreshAndAdvance(recoverLabel) ==
    /\ \E cm \in HashValues, sec \in HashValues :
         /\ configmapHash' = cm
         /\ secretHash' = sec
    /\ UpgradePhase' = RecoveringData
    /\ pc' = recoverLabel
    /\ h' = Saw(Moved(h), "refresh", 0)
    /\ UNCHANGED <<live, self, clusterSize, UnderUpgrade, stack, loc>>

\* Recover with the phase emptied at the end of the cycle.
Recover_ToEmpty(r) ==
    /\ UpgradePhase' = PhaseEmpty
    /\ UnderUpgrade' = ""
    /\ Return(h, "end", r)
    /\ UNCHANGED <<live, handle, loc>>

\* The RecoveringData block: the cycle ends.
Recover(r) ==
    /\ UpgradePhase' = ControllerUpdated
    /\ UnderUpgrade' = ""
    /\ Return(h, "end", r)
    /\ UNCHANGED <<live, handle, loc>>

\* ---------------------------------------------------------- create, scale
\* What client.Create can answer.
CreateOutcomes == IF live.exists THEN {"alreadyexists", "api"} ELSE {"ok", "api"}

\* The live object after the API server accepted Create(obj).
Created(obj) ==
    [exists |-> TRUE, partition |-> obj.partition, replicas |-> obj.replicas,
     statusReplicas |-> 0, template |-> obj.template]

CreateCalled(rv, call, scaled, ret) ==
    [rv |-> rv, call |-> call, scaled |-> scaled, ret |-> ret]

\* create that takes any error of Create for AlreadyExists.
create_AnyErrorScales ==
    /\ pc = "cr_create"
    /\ IF self.rv = "" THEN
         \E o \in CreateOutcomes :
           LET h1 == [h EXCEPT !.wrote = TRUE] IN
           IF o = "ok" THEN
               /\ live' = Created(self)
               /\ self' = [self EXCEPT !.rv = "cur"]
               /\ \E cm \in HashValues, sec \in HashValues :
                    /\ configmapHash' = cm
                    /\ secretHash' = sec
               /\ loc' = [loc EXCEPT !.err = "nil"]
               /\ pc' = Head(stack)
               /\ stack' = Tail(stack)
               /\ h' = [Saw(h1, "create", 0) EXCEPT
                            !.cr = CreateCalled("empty", o, FALSE, "nil")]
           ELSE
               /\ pc' = "sc_get"
               /\ h' = Spoiled([h1 EXCEPT !.cr = CreateCalled("empty", o, TRUE, "nil")])
               /\ UNCHANGED <<live, self, configmapHash, secretHash, loc, stack>>
       ELSE
           /\ pc' = "sc_get"
           /\ h' = [h EXCEPT !.cr = CreateCalled("set", "none", TRUE, "nil")]
           /\ UNCHANGED <<live, self, configmapHash, secretHash, loc, stack>>
    /\ UNCHANGED <<clusterSize, upgradeStatus>>

\* create(): with no ResourceVersion in node.self, Create it; AlreadyExists
\* goes on to scale() and nil, another error is returned, success takes the
\* hashes of the configmap and the secret.  With a ResourceVersion, scale().
create ==
    /\ pc = "cr_create"
    /\ IF self.rv = "" THEN
         \E o \in CreateOutcomes :
           LET h1 == [h EXCEPT !.wrote = TRUE] IN
           IF o = "ok" THEN
               /\ live' = Created(self)
               /\ self' = [self EXCEPT !.rv = "cur"]
               /\ \E cm \in HashValues, sec \in HashValues :
                    /\ configmapHash' = cm
                    /\ secretHash' = sec
               /\ loc' = [loc EXCEPT !.err = "nil"]
               /\ pc' = Head(stack)
               /\ stack' = Tail(stack)
               /\ h' = [Saw(h1, "create", 0) EXCEPT
                            !.cr = CreateCalled("empty", o, FALSE, "nil")]
           ELSE IF o = "alreadyexists" THEN
               /\ pc' = "sc_get"
               /\ h' = Spoiled([h1 EXCEPT !.cr = CreateCalled("empty", o, TRUE, "nil")])
               /\ UNCHANGED <<live, self, configmapHash, secretHash, loc, stack>>
           ELSE
               /\ loc' = [loc EXCEPT !.err = o]
               /\ pc' = Head(stack)
               /\ stack' = Tail(stack)
               /\ h' = Spoiled([h1 EXCEPT !.cr = CreateCalled("empty", o, FALSE, "err")])
               /\ UNCHANGED <<live, self, configmapHash, secretHash>>
       ELSE
           /\ pc' = "sc_get"
           /\ h' = [h EXCEPT !.cr = CreateCalled("set", "none", TRUE, "nil")]
           /\ UNCHANGED <<live, self, configmapHash, secretHash, loc, stack>>
    /\ UNCHANGED <<clusterSize, upgradeStatus>>

\* scale(): desired is a copy of node.self; Get into node.self (return on an
\* error); when the replica counts differ, node.self takes the desired count
\* and setReplicaCount pushes it.  *desired.Spec.Replicas is a nil
\* dereference when node.self had lost its spec.
scale ==
    /\ pc = "sc_get"
    /\ \E o \in GetOutcomes :
         IF o # "ok" THEN
             /\ loc' = [loc EXCEPT !.err = "nil"]
             /\ pc' = Head(stack)
             /\ stack' = Tail(stack)
             /\ h' = Spoiled(h)
             /\ UNCHANGED self
         ELSE IF self.replicas = NilReplicas THEN
             /\ self' = Fetched
             /\ Return(Spoiled([h EXCEPT !.cr.ret = "panic"]), "panic", "panic")
             /\ UNCHANGED loc
         ELSE IF self.replicas # live.replicas THEN
             /\ self' = [Fetched EXCEPT !.replicas = self.replicas]
             /\ loc' = SetterLocals(loc, self.replicas)
             /\ pc' = "sr_get"
             /\ UNCHANGED <<stack, h>>
         ELSE
             /\ self' = Fetched
             /\ loc' = [loc EXCEPT !.err = "nil"]
             /\ pc' = Head(stack)
             /\ stack' = Tail(stack)
             /\ UNCHANGED h
    /\ UNCHANGED <<live, clusterSize, configmapHash, secretHash, upgradeStatus>>

\* ---------------------------------------------------------- rollingRestart
\* The call, up to its first query: with UnderUpgrade true the start block
\* is skipped and the phase block is entered.
rollingRestart ==
    /\ pc = "idle"
    /\ loc' = NoLocals
    /\ stack' = <<>>
    /\ IF UnderUpgrade # ConditionTrue THEN
           /\ pc' = "rr_health"
           /\ h' = EnteredUpgrade("rollingRestart")
           /\ UNCHANGED UpgradePhase
       ELSE
           /\ h' = Started(EnteredUpgrade("rollingRestart"))
           /\ UpgradePhase' = PhaseEntered(UpgradePhase)
           /\ pc' = IF UpgradePhase' = NodeRestarting THEN "rr_missing"
                    ELSE "rr_recover"
    /\ UNCHANGED <<live, handle, UnderUpgrade>>

\* rollingRestart_Health with the status only looked at, never acted on.
rollingRestart_Health_Ignored ==
    /\ pc = "rr_health"
    /\ \E status \in HealthStatuses :
         /\ pc' = "rr_count"
         /\ h' = [h EXCEPT !.hSeen = status]
         /\ UNCHANGED stack
    /\ UNCHANGED <<live, handle, upgradeStatus, loc>>

\* GetClusterHealthStatus: anything but "green" ends the call.
rollingRestart_Health ==
    /\ pc = "rr_health"
    /\ \E status \in HealthStatuses :
         IF status # "green" THEN
             Return(Spoiled([h EXCEPT !.hSeen = status]), "health", "none")
         ELSE
             /\ pc' = "rr_count"
             /\ h' = [h EXCEPT !.hSeen = status]
             /\ UNCHANGED stack
    /\ UNCHANGED <<live, handle, upgradeStatus, loc>>

\* GetClusterNodeCount: an error ends the call, else node.clusterSize = size.
rollingRestart_NodeCount ==
    /\ pc = "rr_count"
    /\ \E o \in NodeCountOutcomes :
         IF ~o.ok THEN
             /\ Return(Spoiled([h EXCEPT !.countFailed = TRUE]), "count", "none")
             /\ UNCHANGED clusterSize
         ELSE
             /\ clusterSize' = o.n
             /\ pc' = "rr_replicas"
             /\ h' = [h EXCEPT !.cycleSize = o.n]
             /\ UNCHANGED stack
    /\ UNCHANGED <<live, self, configmapHash, secretHash, upgradeStatus, loc>>

\* rollingRestart_Replicas with the error only logged: setPartition is called
\* with the count the handle holds.
rollingRestart_Replicas_GoesOn ==
    /\ pc = "rr_replicas"
    /\ \E o \in GetOutcomes :
         /\ loc' = SetterLocals(loc, IF o = "ok" THEN live.statusReplicas
                                     ELSE self.replicas)
         /\ pc' = "sp_get"
         /\ stack' = <<"rr_started">>
         /\ h' = IF o = "ok" THEN h ELSE Spoiled([h EXCEPT !.replicasFailed = TRUE])
    /\ UNCHANGED <<live, handle, upgradeStatus>>

\* node.replicaCount(): an error ends the call, else setPartition(replicas).
rollingRestart_Replicas ==
    /\ pc = "rr_replicas"
    /\ \E o \in GetOutcomes :
         IF o # "ok" THEN
             /\ Return(Spoiled([h EXCEPT !.replicasFailed = TRUE]), "replicas", "none")
             /\ UNCHANGED loc
         ELSE
             /\ loc' = SetterLocals(loc, live.statusReplicas)
             /\ pc' = "sp_get"
             /\ stack' = <<"rr_started">>
             /\ UNCHANGED h
    /\ UNCHANGED <<live, handle, upgradeStatus>>

\* After setPartition (its error is logged): UnderUpgrade = true, and the
\* phase block.
rollingRestart_Started ==
    /\ pc = "rr_started"
    /\ UnderUpgrade' = ConditionTrue
    /\ UpgradePhase' = PhaseEntered(UpgradePhase)
    /\ pc' = IF UpgradePhase' = NodeRestarting THEN "rr_missing" ELSE "rr_recover"
    /\ h' = Started(h)
    /\ loc' = Popped(loc)
    /\ UNCHANGED <<live, handle, stack>>

\* node.isMissing(): on NotFound, create() (its error is logged).
rollingRestart_IsMissing ==
    /\ pc = "rr_missing"
    /\ \E o \in GetOutcomes :
         IF o = "notfound" THEN
             /\ pc' = "cr_create"
             /\ stack' = <<"rr_ordinal">>
         ELSE
             /\ pc' = "rr_ordinal"
             /\ UNCHANGED stack
    /\ UNCHANGED <<live, handle, upgradeStatus, loc, h>>

rollingRestart_Ordinal ==
    /\ pc = "rr_ordinal"
    /\ ReadOrdinal("rr_rejoin", "rr_final", "none")

rollingRestart_Rejoin ==
    /\ pc = "rr_rejoin"
    /\ WaitRejoin("rejoin", "rr_delete", "none")

rollingRestart_DeletePod ==
    /\ pc = "rr_delete"
    /\ DeleteIndexPod("rr_leave")

rollingRestart_Leave ==
    /\ pc = "rr_leave"
    /\ WaitLeaveThenSet("rr_next")

rollingRestart_Next ==
    /\ pc = "rr_next"
    /\ NextIndex("rr_rejoin", "rr_final")

rollingRestart_FinalRejoin ==
    /\ pc = "rr_final"
    /\ WaitRejoin("final", "rr_refresh", "none")

rollingRestart_Refresh ==
    /\ pc = "rr_refresh"
    /\ RefreshAndAdvance("rr_recover")

rollingRestart_Recover ==
    /\ pc = "rr_recover"
    /\ Recover("none")

\* ------------------------------------------------------ fullClusterRestart
fullClusterRestart ==
    /\ pc = "idle"
    /\ loc' = NoLocals
    /\ stack' = <<>>
    /\ IF UnderUpgrade # ConditionTrue THEN
           /\ pc' = "fr_replicas"
           /\ h' = EnteredUpgrade("fullClusterRestart")
           /\ UNCHANGED UpgradePhase
       ELSE
           /\ h' = Started(EnteredUpgrade("fullClusterRestart"))
           /\ UpgradePhase' = PhaseEntered(UpgradePhase)
           /\ pc' = IF UpgradePhase' = NodeRestarting THEN "fr_ordinal"
                    ELSE "fr_recover"
    /\ UNCHANGED <<live, handle, UnderUpgrade>>

\* node.replicaCount(): an error ends the call.
fullClusterRestart_Replicas ==
    /\ pc = "fr_replicas"
    /\ \E o \in GetOutcomes :
         IF o # "ok" THEN
             /\ Return(Spoiled([h EXCEPT !.replicasFailed = TRUE]), "replicas", "none")
             /\ UNCHANGED loc
         ELSE
             /\ loc' = [loc EXCEPT !.n = live.statusReplicas]
             /\ pc' = "fr_count"
             /\ UNCHANGED <<stack, h>>
    /\ UNCHANGED <<live, handle, upgradeStatus>>

\* GetClusterNodeCount: an error ends the call, else setPartition(replicas).
fullClusterRestart_NodeCount ==
    /\ pc = "fr_count"
    /\ \E o \in NodeCountOutcomes :
         IF ~o.ok THEN
             /\ Return(Spoiled([h EXCEPT !.countFailed = TRUE]), "count", "none")
             /\ UNCHANGED loc
         ELSE
             /\ loc' = [SetterLocals(loc, loc.n) EXCEPT !.size = o.n]
             /\ pc' = "sp_get"
             /\ stack' = <<"fr_started">>
             /\ UNCHANGED h
    /\ UNCHANGED <<live, handle, upgradeStatus>>

\* fullClusterRestart_Started that leaves UnderUpgrade as it was.
fullClusterRestart_Started_NoFlag ==
    /\ pc = "fr_started"
    /\ clusterSize' = loc.size
    /\ UpgradePhase' = PhaseEntered(UpgradePhase)
    /\ pc' = IF UpgradePhase' = NodeRestarting THEN "fr_ordinal" ELSE "fr_recover"
    /\ h' = [Started(h) EXCEPT !.cycleSize = loc.size]
    /\ loc' = Popped(loc)
    /\ UNCHANGED <<live, self, configmapHash, secretHash, stack, UnderUpgrade>>

\* After setPartition (its error is logged): node.clusterSize = size,
\* UnderUpgrade = true, and the phase block.
fullClusterRestart_Started ==
    /\ pc = "fr_started"
    /\ clusterSize' = loc.size
    /\ UnderUpgrade' = ConditionTrue
    /\ UpgradePhase' = PhaseEntered(UpgradePhase)
    /\ pc' = IF UpgradePhase' = NodeRestarting THEN "fr_ordinal" ELSE "fr_recover"
    /\ h' = [Started(h) EXCEPT !.cycleSize = loc.size]
    /\ loc' = Popped(loc)
    /\ UNCHANGED <<live, self, configmapHash, secretHash, stack>>

fullClusterRestart_Ordinal ==
    /\ pc = "fr_ordinal"
    /\ ReadOrdinal("fr_delete", "fr_refresh", "none")

fullClusterRestart_DeletePod ==
    /\ pc = "fr_delete"
    /\ DeleteIndexPod("fr_leave")

fullClusterRestart_Leave ==
    /\ pc = "fr_leave"
    /\ WaitLeaveThenSet("fr_next")

fullClusterRestart_Next ==
    /\ pc = "fr_next"
    /\ NextIndex("fr_delete", "fr_refresh")

fullClusterRestart_Refresh ==
    /\ pc = "fr_refresh"
    /\ RefreshAndAdvance("fr_recover")

fullClusterRestart_Recover ==
    /\ pc = "fr_recover"
    /\ Recover("none")

\* ------------------------------------------------- isChanged, executeUpdate
\* elasticsearch.UpdatePodTemplateSpec(name, actual, desired): whether the
\* templates differ, and actual brought to desired.
UpdatePodTemplateSpec(actual, desired) ==
    [changed |-> actual # desired, template |-> desired]

\* isChanged that answers true when its Get failed.
isChanged_TrueOnError(o) ==
    IF o # "ok" THEN
        [changed |-> TRUE,
         self |-> [self EXCEPT !.partition = NilReplicas, !.replicas = NilReplicas,
                               !.template = EmptyTemplate]]
    ELSE LET u == UpdatePodTemplateSpec(Fetched.template, EmptyTemplate) IN
        [changed |-> u.changed, self |-> [Fetched EXCEPT !.template = u.template]]

\* isChanged() by the outcome o of its Get: node.self.Spec is emptied, then
\* fetched; a failed Get gives false; else the fetched template is compared
\* with (and brought to) the template of desired, an empty apps.StatefulSet.
isChanged(o) ==
    IF o # "ok" THEN
        [changed |-> FALSE,
         self |-> [self EXCEPT !.partition = NilReplicas, !.replicas = NilReplicas,
                               !.template = EmptyTemplate]]
    ELSE LET u == UpdatePodTemplateSpec(Fetched.template, EmptyTemplate) IN
        [changed |-> u.changed, self |-> [Fetched EXCEPT !.template = u.template]]

\* One attempt of executeUpdate up to its Update: isChanged(); nothing to
\* change ends the call with nil.
executeUpdate_IsChanged ==
    /\ pc = "eu_changed"
    /\ \E o \in GetOutcomes :
         LET c == isChanged(o)
             l1 == [loc EXCEPT !.nretries = @ + 1]
             h1 == IF o # "ok" THEN Spoiled(h) ELSE h IN
         /\ self' = c.self
         /\ IF c.changed THEN
                /\ pc' = "eu_update"
                /\ loc' = l1
                /\ h' = [h1 EXCEPT !.fetched = (o = "ok")]
                /\ UNCHANGED stack
            ELSE
                /\ loc' = [l1 EXCEPT !.err = "nil"]
                /\ pc' = Head(stack)
                /\ stack' = Tail(stack)
                /\ h' = IF Head(stack) = "done" THEN Returned(h1, "end", "nil") ELSE h1
    /\ UNCHANGED <<live, clusterSize, configmapHash, secretHash, upgradeStatus>>

\* The attempt's Update of node.self, and RetryOnConflict's decision.
executeUpdate_Update ==
    /\ pc = "eu_update"
    /\ \E o \in UpdateOutcomes :
         LET h1 == [h EXCEPT !.wrote = TRUE, !.fetched = FALSE] IN
         IF o = "ok" THEN
             /\ live' = Stored(self)
             /\ loc' = [loc EXCEPT !.err = "nil"]
             /\ pc' = Head(stack)
             /\ stack' = Tail(stack)
             /\ h' = LET h2 == [Saw(h1, "push", 0) EXCEPT !.pushed = self.template]
                     IN IF Head(stack) = "done" THEN Returned(h2, "end", "nil") ELSE h2
         ELSE IF o = "conflict" /\ loc.nretries + 1 < DefaultRetrySteps THEN
             /\ pc' = "eu_changed"
             /\ h' = Spoiled(h1)
             /\ UNCHANGED <<live, loc, stack>>
         ELSE
             /\ loc' = [loc EXCEPT !.err = o]
             /\ pc' = Head(stack)
             /\ stack' = Tail(stack)
             /\ h' = IF Head(stack) = "done" THEN Returned(Spoiled(h1), "end", "err")
                     ELSE Spoiled(h1)
             /\ UNCHANGED live
    /\ UNCHANGED <<handle, upgradeStatus>>

\* ------------------------------------------------------------------ update
\* Where the phase block of update goes: an idle phase calls executeUpdate.
update_Phase(phase) ==
    IF phase = PhaseEmpty \/ phase = ControllerUpdated THEN "eu_changed"
    ELSE IF phase = NodeRestarting THEN "u_ordinal"
    ELSE "u_recover"

update ==
    /\ pc = "idle"
    /\ loc' = NoLocals
    /\ IF UnderUpgrade # ConditionTrue THEN
           /\ pc' = "u_health"
           /\ stack' = <<>>
           /\ h' = EnteredUpgrade("update")
       ELSE
           /\ h' = Started(EnteredUpgrade("update"))
           /\ pc' = update_Phase(UpgradePhase)
           /\ stack' = IF pc' = "eu_changed" THEN <<"u_pushed">> ELSE <<>>
    /\ UNCHANGED <<live, handle, upgradeStatus>>

\* update_Health that lets a "yellow" cluster pass.
update_Health_YellowPasses ==
    /\ pc = "u_health"
    /\ \E status \in HealthStatuses :
         IF status \notin {"green", "yellow"} THEN
             Return(Spoiled([h EXCEPT !.hSeen = status]), "health", "err")
         ELSE
             /\ pc' = "u_count"
             /\ h' = [h EXCEPT !.hSeen = status]
             /\ UNCHANGED stack
    /\ UNCHANGED <<live, handle, upgradeStatus, loc>>

\* GetClusterHealthStatus (its error is dropped): anything but "green" ends
\* the call with an error.
update_Health ==
    /\ pc = "u_health"
    /\ \E status \in HealthStatuses :
         IF status # "green" THEN
             Return(Spoiled([h EXCEPT !.hSeen = status]), "health", "err")
         ELSE
             /\ pc' = "u_count"
             /\ h' = [h EXCEPT !.hSeen = status]
             /\ UNCHANGED stack
    /\ UNCHANGED <<live, handle, upgradeStatus, loc>>

\* GetClusterNodeCount: an error is logged, and node.clusterSize = size with
\* the size the failed query gave.
update_NodeCount ==
    /\ pc = "u_count"
    /\ \E o \in NodeCountOutcomes :
         /\ clusterSize' = o.n
         /\ h' = LET h1 == [h EXCEPT !.cycleSize = o.n]
                 IN IF o.ok THEN h1 ELSE Spoiled([h1 EXCEPT !.countFailed = TRUE])
    /\ pc' = "u_replicas"
    /\ UNCHANGED <<live, self, configmapHash, secretHash, upgradeStatus, stack, loc>>

\* node.replicaCount(): an error ends the call with an error, else
\* setPartition(replicas).
update_Replicas ==
    /\ pc = "u_replicas"
    /\ \E o \in GetOutcomes :
         IF o # "ok" THEN
             /\ Return(Spoiled([h EXCEPT !.replicasFailed = TRUE]), "replicas", "err")
             /\ UNCHANGED loc
         ELSE
             /\ loc' = SetterLocals(loc, live.statusReplicas)
             /\ pc' = "sp_get"
             /\ stack' = <<"u_started">>
             /\ UNCHANGED h
    /\ UNCHANGED <<live, handle, upgradeStatus>>

\* After setPartition (its error is logged): UnderUpgrade = true, and the
\* phase block.
update_Started ==
    /\ pc = "u_started"
    /\ UnderUpgrade' = ConditionTrue
    /\ pc' = update_Phase(UpgradePhase)
    /\ stack' = IF pc' = "eu_changed" THEN <<"u_pushed">> ELSE <<>>
    /\ h' = [Started(h) EXCEPT !.startPart = IF loc.err = "nil" THEN loc.n ELSE -1]
    /\ loc' = Popped(loc)
    /\ UNCHANGED <<live, handle, UpgradePhase>>

\* update_Pushed that swallows the error of executeUpdate: the call ends
\* with nil.
update_Pushed_NilOnError ==
    /\ pc = "u_pushed"
    /\ IF loc.err # "nil" THEN
           /\ Return(h, "push", "nil")
           /\ UNCHANGED <<UpgradePhase, loc>>
       ELSE
           /\ UpgradePhase' = NodeRestarting
           /\ pc' = "u_ordinal"
           /\ loc' = Popped(loc)
           /\ UNCHANGED <<stack, h>>
    /\ UNCHANGED <<live, handle, UnderUpgrade>>

\* After executeUpdate: its error ends the call, else UpgradePhase =
\* NodeRestarting.
update_Pushed ==
    /\ pc = "u_pushed"
    /\ IF loc.err # "nil" THEN
           /\ Return(h, "push", "err")
           /\ UNCHANGED <<UpgradePhase, loc>>
       ELSE
           /\ UpgradePhase' = NodeRestarting
           /\ pc' = "u_ordinal"
           /\ loc' = Popped(loc)
           /\ UNCHANGED <<stack, h>>
    /\ UNCHANGED <<live, handle, UnderUpgrade>>

update_Ordinal ==
    /\ pc = "u_ordinal"
    /\ ReadOrdinal("u_rejoin", "u_final", "err")

\* The rejoin wait of the loop, then setPartition(index - 1).
update_Rejoin ==
    /\ pc = "u_rejoin"
    /\ \E o \in NodeCountOutcomes :
         IF waitForNodeRejoinCluster(o) THEN
             /\ pc' = "sp_get"
             /\ stack' = <<"u_leave">>
             /\ loc' = SetterLocals(loc, loc.index - 1)
             /\ h' = Polled(Saw(h, "rejoin", 0), "rejoin", o)
         ELSE
             /\ Return(Spoiled(Moved([h EXCEPT !.timedOut = "rejoin"])), "rejoin", "err")
             /\ UNCHANGED loc
    /\ UNCHANGED <<live, handle, upgradeStatus>>

\* After setPartition (its error is logged): the leave wait, then index--
\* and the loop's test.
update_Leave ==
    /\ pc = "u_leave"
    /\ \E o \in NodeCountOutcomes :
         IF waitForNodeLeaveCluster(o) THEN
             /\ loc' = [Popped(loc) EXCEPT !.index = @ - 1]
             /\ pc' = IF loc.index - 1 > 0 THEN "u_rejoin" ELSE "u_final"
             /\ h' = [Polled(Saw(h, "leave", 0), "leave", o) EXCEPT
                          !.stepPart = live.partition]
             /\ UNCHANGED stack
         ELSE
             /\ Return(Spoiled(Moved([h EXCEPT !.timedOut = "leave"])), "leave", "err")
             /\ UNCHANGED loc
    /\ UNCHANGED <<live, handle, upgradeStatus>>

update_FinalRejoin ==
    /\ pc = "u_final"
    /\ WaitRejoin("final", "u_refresh", "err")

update_Refresh ==
    /\ pc = "u_refresh"
    /\ RefreshAndAdvance("u_recover")

update_Recover ==
    /\ pc = "u_recover"
    /\ Recover("nil")

\* state(): isChanged() gives ScheduledForUpgrade; the secret's hash is
\* computed, taken as node.secretHash if that was empty, compared with it
\* otherwise (ScheduledForCertRedeploy).  The configmap's hash is not looked
\* at.  The result is the first of the two conditions.
state ==
    /\ pc = "idle"
    /\ \E o \in GetOutcomes, newSecretHash \in HashValues :
         LET c == isChanged(o) IN
         /\ self' = c.self
         /\ secretHash' = IF secretHash = NoHash THEN newSecretHash ELSE secretHash
         /\ h' = Returned(Entered("state"), "end",
                          IF c.changed THEN "true" ELSE "false")
    /\ pc' = "done"
    /\ loc' = NoLocals
    /\ UNCHANGED <<live, clusterSize, configmapHash, upgradeStatus, stack>>

\* The reconciler calls isChanged() on the handle of this pass: the answer,
\* and whether the Get failed.
isChanged_Call ==
    /\ pc = "idle"
    /\ \E o \in GetOutcomes :
         LET c == isChanged(o) IN
         /\ self' = c.self
         /\ h' = Returned(Entered("isChanged"), IF o = "ok" THEN "end" ELSE "get",
                          IF c.changed THEN "true" ELSE "false")
    /\ pc' = "done"
    /\ loc' = NoLocals
    /\ UNCHANGED <<live, clusterSize, configmapHash, secretHash, upgradeStatus,
                   stack>>

\* The reconciler calls executeUpdate on the handle.
CallExecuteUpdate ==
    /\ pc = "idle"
    /\ loc' = NoLocals
    /\ h' = Entered("executeUpdate")
    /\ pc' = "eu_changed"
    /\ stack' = <<"done">>
    /\ UNCHANGED <<live, handle, upgradeStatus>>

\* ------------------------------------------------ progressUnshedulableNode
\* isChanged(): nothing to change ends the call with nil, else executeUpdate.
progressUnshedulableNode ==
    /\ pc = "idle"
    /\ \E o \in GetOutcomes :
         LET c == isChanged(o)
             h1 == Entered("progressUnshedulableNode") IN
         /\ self' = c.self
         /\ IF c.changed THEN
                /\ pc' = "eu_changed"
                /\ stack' = <<"pu_pushed">>
                /\ h' = h1
            ELSE
                Return(IF o = "ok" THEN h1 ELSE Spoiled(h1), "unchanged", "nil")
    /\ loc' = NoLocals
    /\ UNCHANGED <<live, clusterSize, configmapHash, secretHash, upgradeStatus>>

\* After executeUpdate: its error ends the call; else node.partition(), whose
\* error ends the call.
progressUnshedulableNode_Pushed ==
    /\ pc = "pu_pushed"
    /\ IF loc.err # "nil" THEN
           /\ Return(h, "push", "err")
           /\ UNCHANGED loc
       ELSE
           \E o \in GetOutcomes :
             IF o # "ok" THEN
                 /\ Return(Spoiled(h), "ordinal", "err")
                 /\ UNCHANGED loc
             ELSE
                 /\ pc' = "pu_delete"
                 /\ loc' = [Popped(loc) EXCEPT !.index = live.partition]
                 /\ h' = [h EXCEPT !.res = live.partition]
                 /\ UNCHANGED stack
    /\ UNCHANGED <<live, handle, upgradeStatus>>

\* DeletePod of the pod "<name>-<partition>", and the return.
progressUnshedulableNode_DeletePod ==
    /\ pc = "pu_delete"
    /\ \E o \in {"ok", "err"} :
         LET h1 == [h EXCEPT !.del = loc.index] IN
         IF o = "ok" THEN Return(h1, "end", "nil")
         ELSE Return(Spoiled(h1), "delete", "err")
    /\ UNCHANGED <<live, handle, upgradeStatus, loc>>

\* ------------------------------------------- calls made by the reconciler
\* The reconciler calls setPartition(n) or setReplicaCount(n) on the handle.
CallSetPartition ==
    /\ pc = "idle"
    /\ \E n \in 0..MaxReplicas :
         /\ loc' = SetterLocals(NoLocals, n)
         /\ h' = [Entered("setPartition") EXCEPT !.arg = n]
    /\ pc' = "sp_get"
    /\ stack' = <<"done">>
    /\ UNCHANGED <<live, handle, upgradeStatus>>

CallSetReplicaCount ==
    /\ pc = "idle"
    /\ \E n \in 1..MaxReplicas :
         /\ loc' = SetterLocals(NoLocals, n)
         /\ h' = [Entered("setReplicaCount") EXCEPT !.arg = n]
    /\ pc' = "sr_get"
    /\ stack' = <<"done">>
    /\ UNCHANGED <<live, handle, upgradeStatus>>

\* partition(): the live object's rollout partition, or -1 and the Get's error.
partition ==
    /\ CanCall
    /\ \E o \in GetOutcomes :
         h' = Returned([Entered("partition") EXCEPT
                            !.prev = Previous,
                            !.res = IF o = "ok" THEN live.partition ELSE -1],
                       "end", IF o = "ok" THEN "nil" ELSE "err")
    /\ pc' = "done"
    /\ loc' = NoLocals
    /\ UNCHANGED <<live, handle, upgradeStatus, stack>>

\* replicaCount(): the live object's Status.Replicas, or -1 and the Get's error.
replicaCount ==
    /\ CanCall
    /\ \E o \in GetOutcomes :
         h' = Returned([Entered("replicaCount") EXCEPT
                            !.prev = Previous,
                            !.res = IF o = "ok" THEN live.statusReplicas ELSE -1],
                       "end", IF o = "ok" THEN "nil" ELSE "err")
    /\ pc' = "done"
    /\ loc' = NoLocals
    /\ UNCHANGED <<live, handle, upgradeStatus, stack>>

\* populateReference (and updateReference): for the next reconcile pass the
\* handle's copy is the desired object again, built from the cluster's
\* configuration (partition 0, d replicas, the desired pod template, no
\* ResourceVersion).  The last call's result has been taken.
populateReference ==
    /\ pc = "done"
    /\ \E d \in 1..MaxReplicas : self' = populated(d)
    /\ pc' = "idle"
    /\ loc' = NoLocals
    /\ h' = Kept
    /\ UNCHANGED <<live, clusterSize, configmapHash, secretHash, upgradeStatus,
                   stack>>

\* The reconcile pass works on a statefulSetNode constructed for it: the
\* zero value of the struct, then populateReference.  Taken inside an upgrade
\* cycle only: outside one the start block of the next call stores
\* node.clusterSize before any wait reads it, and no entry point reads the
\* hashes, so the pass is the one of populateReference.
newHandle ==
    /\ pc = "done"
    /\ UnderUpgrade = ConditionTrue
    /\ \E d \in 1..MaxReplicas : self' = populated(d)
    /\ clusterSize' = 0
    /\ configmapHash' = NoHash
    /\ secretHash' = NoHash
    /\ pc' = "idle"
    /\ loc' = NoLocals
    /\ h' = Kept
    /\ UNCHANGED <<live, upgradeStatus, stack>>

\* The other writers of the live object.
Others ==
    \/ ControllerSync
    \/ ExternalDelete
    \/ ExternalCreate

\* The steps of setPartition, setReplicaCount, create and scale.
Helpers ==
    \/ setPartition_Get
    \/ setPartition_Update
    \/ setReplicaCount_Get
    \/ setReplicaCount_Update
    \/ create
    \/ scale

\* The upgrade state machine: the reconciler calls the entry points.
Next ==
    \/ Others
    \/ Helpers
    \/ populateReference
    \/ newHandle
    \/ rollingRestart
    \/ rollingRestart_Health
    \/ rollingRestart_NodeCount
    \/ rollingRestart_Replicas
    \/ rollingRestart_Started
    \/ rollingRestart_IsMissing
    \/ rollingRestart_Ordinal
    \/ rollingRestart_Rejoin
    \/ rollingRestart_DeletePod
    \/ rollingRestart_Leave
    \/ rollingRestart_Next
    \/ rollingRestart_FinalRejoin
    \/ rollingRestart_Refresh
    \/ rollingRestart_Recover
    \/ fullClusterRestart
    \/ fullClusterRestart_Replicas
    \/ fullClusterRestart_NodeCount
    \/ fullClusterRestart_Started
    \/ fullClusterRestart_Ordinal
    \/ fullClusterRestart_DeletePod
    \/ fullClusterRestart_Leave
    \/ fullClusterRestart_Next
    \/ fullClusterRestart_Refresh
    \/ fullClusterRestart_Recover
    \/ executeUpdate_IsChanged
    \/ executeUpdate_Update
    \/ update
    \/ update_Health
    \/ update_NodeCount
    \/ update_Replicas
    \/ update_Started
    \/ update_Pushed
    \/ update_Ordinal
    \/ update_Rejoin
    \/ update_Leave
    \/ update_FinalRejoin
    \/ update_Refresh
    \/ update_Recover

Spec == Init /\ [][Next]_vars

\* The upgrade state machine with a reconciler that goes on calling: no
\* call is left unfinished and a pass follows a pass.
SpecLive == Init /\ [][Next]_vars /\ WF_vars(Next)

\* The partition controller on its own: the reconciler calls the setters
\* and the getters.
NextSetters ==
    \/ Others
    \/ ExternalEdit
    \/ setPartition_Get
    \/ setPartition_Update
    \/ setReplicaCount_Get
    \/ setReplicaCount_Update
    \/ CallSetPartition
    \/ CallSetReplicaCount
    \/ CallExecuteUpdate
    \/ isChanged_Call
    \/ state
    \/ executeUpdate_IsChanged
    \/ executeUpdate_Update
    \/ progressUnshedulableNode
    \/ progressUnshedulableNode_Pushed
    \/ progressUnshedulableNode_DeletePod
    \/ partition
    \/ replicaCount
    \/ populateReference

SpecSetters == Init /\ [][NextSetters]_vars

\* ------------------------------------------------------------- the claims
EntryPoints == {"rollingRestart", "fullClusterRestart", "update"}
Setters == {"setPartition", "setReplicaCount"}
UpdateLabels == {"sp_update", "sr_update", "eu_update"}
SetterLabels == {"sp_get", "sp_update", "sr_get", "sr_update"}

\* The running (or just returned) call found an idle status.
IdleAtEntry ==
    /\ h.ep \in EntryPoints
    /\ h.entryUnder # ConditionTrue
    /\ h.entryPhase \in {PhaseEmpty, ControllerUpdated}

\* C1: over any sequence of calls of the three entry points, with any
\* outcomes of the API, the health oracle and the waits, UpgradePhase changes
\* only from Empty/ControllerUpdated to NodeRestarting, from NodeRestarting to
\* RecoveringData and from RecoveringData to ControllerUpdated.
C1_PhaseOrder ==
    [][\/ UpgradePhase' = UpgradePhase
       \/ /\ UpgradePhase \in {PhaseEmpty, ControllerUpdated}
          /\ UpgradePhase' = NodeRestarting
       \/ /\ UpgradePhase = NodeRestarting
          /\ UpgradePhase' = RecoveringData
       \/ /\ UpgradePhase = RecoveringData
          /\ UpgradePhase' = ControllerUpdated]_vars

\* A second cycle has run to its end.
C1_Witness ==
    /\ pc = "done"
    /\ h.ep \in EntryPoints
    /\ h.entryPhase = ControllerUpdated
    /\ h.retAt = "end"
    /\ UpgradePhase = ControllerUpdated

\* C2: while UpgradePhase is NodeRestarting the live partition never
\* increases from one state to the next, and when the phase advances to
\* RecoveringData the live partition is 0, also when a setPartition call of
\* the loop failed (no other writer having acted in the call).
C2_PartitionDescends ==
    [][(UpgradePhase = NodeRestarting /\ ~h'.extWrote) =>
          /\ live'.partition <= live.partition
          /\ (UpgradePhase' = RecoveringData => live'.partition = 0)]_vars

\* C3: update called with UnderUpgrade not true, the health oracle answering
\* anything but "green" (a failed query answers ""): the call has returned an
\* error, UpgradePhase and UnderUpgrade are as found, and no Create, Update,
\* Delete or pod deletion was issued.
C3_UpdateRefusesUnhealthy ==
    (h.ep = "update" /\ h.entryUnder # ConditionTrue
        /\ h.hSeen \notin {"none", "green"}) =>
        /\ pc = "done"
        /\ h.ret = "err"
        /\ UpgradePhase = h.entryPhase
        /\ UnderUpgrade = h.entryUnder
        /\ ~h.wrote

\* update refused a yellow cluster after an earlier cycle had ended.
C3_Witness ==
    /\ pc = "done"
    /\ h.ep = "update"
    /\ h.hSeen = "yellow"
    /\ h.ret = "err"
    /\ h.entryPhase = ControllerUpdated

\* The events of an update of a 3-replica group in which every query, wait
\* and API call succeeds: with and without a template to push.
C4_Steps(push) ==
    <<Event("setPartition", 3)>> \o push \o
    <<Event("rejoin", 0), Event("setPartition", 2), Event("leave", 0),
      Event("rejoin", 0), Event("setPartition", 1), Event("leave", 0),
      Event("rejoin", 0), Event("setPartition", 0), Event("leave", 0),
      Event("rejoin", 0), Event("refresh", 0)>>

\* The order of C4 alone: partition 3, the push if any, then 2, 1, 0, each
\* after a rejoin wait and before a leave wait, ending the cycle.
C4_Order ==
    (pc = "done" /\ h.ep = "update" /\ IdleAtEntry /\ h.clean
        /\ h.trace # <<>> /\ h.trace[1] = Event("setPartition", 3)) =>
        /\ h.trace \in {C4_Steps(<<>>), C4_Steps(<<Event("push", 0)>>)}
        /\ UpgradePhase = ControllerUpdated
        /\ UnderUpgrade = ""
        /\ h.ret = "nil"

\* C4: for a 3-replica group with idle status, a green cluster and all waits
\* succeeding, update sets the partition to 3, pushes the new spec (the live
\* object then has the desired template), takes the partition through 3, 2,
\* 1, 0, each decrement after a rejoin wait and before a leave wait, and ends
\* with ControllerUpdated and UnderUpgrade "".
C4_Scenario ==
    (pc = "done" /\ h.ep = "update" /\ IdleAtEntry /\ h.clean
        /\ h.trace # <<>> /\ h.trace[1] = Event("setPartition", 3)) =>
        /\ h.trace \in {C4_Steps(<<>>), C4_Steps(<<Event("push", 0)>>)}
        /\ live.template = populated(1).template
        /\ UpgradePhase = ControllerUpdated
        /\ UnderUpgrade = ""
        /\ h.ret = "nil"

C6_FailedStartKeepsPartition ==
    (IdleAtEntry /\ ~h.extWrote
        /\ (h.hSeen \notin {"none", "green"} \/ h.replicasFailed)) =>
        /\ pc = "done"
        /\ ~h.wrote
        /\ live.partition = h.entryPart

\* The replica-count fetch of fullClusterRestart failed on a live object
\* whose partition is not 0.
C6_Witness ==
    /\ pc = "done"
    /\ h.ep = "fullClusterRestart"
    /\ IdleAtEntry
    /\ h.replicasFailed
    /\ ~h.extWrote
    /\ live.exists
    /\ live.partition > 0
    /\ live.partition = h.entryPart

\* C7 as stated: rollingRestart called with UnderUpgrade not true starts the
\* upgrade whatever the health oracle reports, once its node-count and
\* replica-count fetches succeed.
C7_NoHealthPrecondition ==
    (pc = "done" /\ h.ep = "rollingRestart" /\ h.entryUnder # ConditionTrue
        /\ ~h.countFailed /\ ~h.replicasFailed) => h.started

\* C7 amended: rollingRestart asks the health oracle as update does: on
\* anything but "green" it returns without starting (status as found, nothing
\* written); rollingRestart and update start only on "green", and only
\* fullClusterRestart never asks.
C7_HealthPrecondition ==
    /\ (h.ep = "rollingRestart" /\ h.entryUnder # ConditionTrue
           /\ h.hSeen \notin {"none", "green"}) =>
           /\ pc = "done"
           /\ ~h.started
           /\ ~h.wrote
           /\ UnderUpgrade = h.entryUnder
           /\ UpgradePhase = h.entryPhase
    /\ (h.ep \in {"rollingRestart", "update"} /\ h.entryUnder # ConditionTrue
           /\ h.started) => h.hSeen = "green"
    /\ h.ep = "fullClusterRestart" => h.hSeen = "none"

\* rollingRestart returned at its health check on a red cluster.
C7_Witness ==
    /\ pc = "done"
    /\ h.ep = "rollingRestart"
    /\ h.retAt = "health"
    /\ h.hSeen = "red"
    /\ UnderUpgrade # ConditionTrue

\* C8 as stated: partition() right after a successful setPartition(n) returns
\* n, and replicaCount() right after a successful setReplicaCount(n) returns n.
C8_RoundTrip ==
    /\ (pc = "done" /\ h.ep = "partition" /\ h.ret = "nil"
           /\ h.prev.field = "partition") => h.res = h.prev.n
    /\ (pc = "done" /\ h.ep = "replicaCount" /\ h.ret = "nil"
           /\ h.prev.field = "replicas") => h.res = h.prev.n

\* C8 amended: partition() right after a successful setPartition(n) returns
\* n; right after a successful setReplicaCount(n) the live Spec.Replicas is n
\* and replicaCount() returns the live Status.Replicas, which the setter
\* does not write.
C8_RoundTripPartition ==
    /\ (pc = "done" /\ h.ep = "partition" /\ h.ret = "nil"
           /\ h.prev.field = "partition") => h.res = h.prev.n
    /\ (pc = "done" /\ h.ep = "replicaCount" /\ h.ret = "nil"
           /\ h.prev.field = "replicas") =>
           /\ live.replicas = h.prev.n
           /\ h.res = live.statusReplicas

\* replicaCount() right after a successful setReplicaCount(n) returned
\* another count than n.
C8_Witness ==
    /\ pc = "done"
    /\ h.ep = "replicaCount"
    /\ h.ret = "nil"
    /\ h.prev.field = "replicas"
    /\ h.res # h.prev.n

\* The attempts a setter's log holds.
Attempts(log) ==
    Cardinality({i \in DOMAIN log : log[i] \in {"get_ok", "get_err", "same"}})

\* C9: a setter makes at most DefaultRetrySteps get-compare-write attempts;
\* an attempt follows another only after an Update that gave Conflict; a Get
\* error, any other Update error, an equal value (no Update then) or an
\* accepted Update end the call; and an error return has nretries at the
\* attempts made minus one, all attempts when the conflicts went on.
C9_BoundedRetries ==
    h.ep \in Setters =>
        LET log == h.spLog IN
        /\ Attempts(log) <= DefaultRetrySteps
        /\ \A i \in 1..(Len(log) - 1) :
             /\ log[i] \in {"get_ok", "upd_conflict"}
             /\ log[i] = "get_ok" =>
                    log[i + 1] \in {"upd_ok", "upd_conflict", "upd_err"}
             /\ log[i] = "upd_conflict" =>
                    log[i + 1] \in {"get_ok", "get_err", "same"}
        /\ pc = "done" =>
             /\ log # <<>>
             /\ log[Len(log)] # "get_ok"
             /\ h.ret = "nil" <=> log[Len(log)] \in {"same", "upd_ok"}
             /\ log[Len(log)] = "upd_conflict" =>
                    Attempts(log) = DefaultRetrySteps
             /\ h.ret = "err" => loc.nretries = Attempts(log) - 1
             /\ ("same" \in {log[i] : i \in DOMAIN log} /\ Len(log) = 1) =>
                    ~h.wrote

\* setPartition gave up after DefaultRetrySteps conflicts.
C9_Witness ==
    /\ pc = "done"
    /\ h.ep = "setPartition"
    /\ h.ret = "err"
    /\ Len(h.spLog) = 2 * DefaultRetrySteps
    /\ h.spLog[Len(h.spLog)] = "upd_conflict"
    /\ loc.nretries = DefaultRetrySteps - 1

\* C10: an Update of setPartition, setReplicaCount or executeUpdate is
\* issued only on an object fetched in the same attempt, and an accepted
\* Update changes, of the live object as it is at the write, only the field
\* the call sets: what another writer changed since the fetch is not
\* overwritten.
C10_NoLostUpdate ==
    [][/\ pc' \in UpdateLabels => h'.fetched
       /\ (pc \in UpdateLabels /\ pc' # pc /\ live' # live) =>
            /\ pc = "sp_update" => live' = [live EXCEPT !.partition = loc.n]
            /\ pc = "sr_update" => live' = [live EXCEPT !.replicas = loc.n]
            /\ pc = "eu_update" =>
                   live' = [live EXCEPT !.template = live'.template]]_vars

\* executeUpdate pushed in a later attempt, after another writer's edit of
\* the partition made its first Update a Conflict; the edit is still there.
C10_Witness ==
    /\ pc = "done"
    /\ h.ep = "executeUpdate"
    /\ h.ret = "nil"
    /\ h.wrote
    /\ h.extWrote
    /\ loc.nretries >= 1
    /\ h.pushed # "none"
    /\ live.partition > 0

\* C11: isChanged() answers false whenever its fetch of the live object
\* fails, and otherwise answers true exactly when the live pod template
\* differs from the template populateReference built for the node group.
C11_IsChanged ==
    (pc = "done" /\ h.ep = "isChanged") =>
        /\ h.retAt = "get" => h.ret = "false"
        /\ h.retAt = "end" => (h.ret = "true" <=> live.template # DesiredTemplate)

\* C12: create() on a handle with a ResourceVersion issues no Create call
\* and runs scale(); with no ResourceVersion, a Create answered
\* AlreadyExists runs scale() and returns nil, and any other Create error is
\* returned as an error without running scale().
C12_CreateRoutes ==
    /\ h.cr.rv = "set" => (h.cr.call = "none" /\ h.cr.scaled)
    /\ h.cr.rv = "empty" => h.cr.call # "none"
    /\ h.cr.call = "alreadyexists" => (h.cr.scaled /\ h.cr.ret = "nil")
    /\ h.cr.call = "api" => (~h.cr.scaled /\ h.cr.ret = "err")
    /\ h.cr.call = "ok" => (~h.cr.scaled /\ h.cr.ret = "nil")

\* rollingRestart found the object missing and called create() on a handle
\* that had fetched it earlier in the call: scale() ran, no Create.
C12_Witness ==
    /\ pc = "rr_ordinal"
    /\ h.cr.rv = "set"
    /\ h.cr.call = "none"
    /\ h.cr.scaled

\* create() lost the race for the object: AlreadyExists, scale(), nil.
C12_WitnessRace ==
    /\ pc = "rr_ordinal"
    /\ h.cr.call = "alreadyexists"
    /\ h.cr.ret = "nil"

\* C13: a membership wait succeeds only on a poll whose node-count query
\* succeeded and gave a count below node.clusterSize (leave) or at least
\* node.clusterSize (rejoin); a wait that timed out makes the call return.
C13_WaitsCountOnlyFetched ==
    /\ h.poll.kind = "leave" => (h.poll.ok /\ h.poll.n < clusterSize)
    /\ h.poll.kind = "rejoin" => (h.poll.ok /\ h.poll.n >= clusterSize)
    /\ h.timedOut # "none" => pc = "done"

\* C14: state() writes nothing to the object store and leaves node.self,
\* node.configmapHash and node.clusterSize as they were; node.secretHash
\* changes only if it was empty when state() was called.
C14_StateFrame ==
    [][(pc = "idle" /\ h'.ep = "state") =>
          /\ live' = live
          /\ self' = self
          /\ configmapHash' = configmapHash
          /\ clusterSize' = clusterSize
          /\ (secretHash' # secretHash => secretHash = NoHash)]_vars

\* C15: in rollingRestart every DeletePod directly follows a rejoin wait of
\* the same call that ended on an observed node count of at least
\* node.clusterSize, and setPartition(index - 1) is called only once the
\* leave wait for the deleted pod ended on an observed count below it.
C15_OneAtATime ==
    [][h.ep = "rollingRestart" =>
          /\ (pc = "rr_delete" /\ pc' # "rr_delete") =>
                 /\ h.poll.kind = "rejoin"
                 /\ h.poll.ok
                 /\ h.poll.n >= clusterSize
          /\ (pc' = "sp_get" /\ stack' = <<"rr_next">> /\ pc \notin SetterLabels) =>
                 /\ pc = "rr_leave"
                 /\ loc'.n = loc.index - 1
                 /\ h'.poll.kind = "leave"
                 /\ h'.poll.ok
                 /\ h'.poll.n < clusterSize]_vars

\* The order of C15 alone, whatever the polls of the waits observed.
C15_Order ==
    [][h.ep = "rollingRestart" =>
          /\ (pc = "rr_delete" /\ pc' # "rr_delete") =>
                 (h.poll.kind = "rejoin" /\ h.poll.n >= clusterSize)
          /\ (pc' = "sp_get" /\ stack' = <<"rr_next">> /\ pc \notin SetterLabels) =>
                 /\ pc = "rr_leave"
                 /\ loc'.n = loc.index - 1
                 /\ h'.poll.kind = "leave"
                 /\ h'.poll.n < clusterSize]_vars

\* C16: in update the Update of executeUpdate is accepted only when the start
\* block of the call has set the live partition to the replica count, and
\* before UpgradePhase is NodeRestarting; each setPartition(index - 1) of the
\* loop follows a rejoin wait that ended on an observed count of at least
\* node.clusterSize, and the leave wait follows it.
C16_PushThenStep ==
    [][h.ep = "update" =>
          /\ (pc = "eu_update" /\ h'.pushed # h.pushed
                  /\ h.entryUnder # ConditionTrue /\ ~h.extWrote) =>
                 /\ live.partition = h.startPart
                 /\ UpgradePhase # NodeRestarting
          /\ (pc' = "sp_get" /\ stack' = <<"u_leave">> /\ pc \notin SetterLabels) =>
                 /\ pc = "u_rejoin"
                 /\ loc'.n = loc.index - 1
                 /\ h'.poll.kind = "rejoin"
                 /\ h'.poll.ok
                 /\ h'.poll.n >= clusterSize
          /\ (pc \in SetterLabels /\ stack = <<"u_leave">> /\ pc' \notin SetterLabels) =>
                 pc' = "u_leave"]_vars

\* The first part of C16 alone: what update pushes onto.
C16_PushOnFrozen ==
    [][(h.ep = "update" /\ pc = "eu_update" /\ h'.pushed # h.pushed
           /\ h.entryUnder # ConditionTrue /\ ~h.extWrote) =>
          live.partition = h.startPart]_vars

\* C17: when a call sets UnderUpgrade to true, the node-count query of the
\* call succeeded (node.clusterSize is its count), its setPartition(replicas)
\* returned nil, and the live partition is the replica count the call read
\* (unless another writer changed the object meanwhile).
C17_StartComplete ==
    [][(UnderUpgrade' = ConditionTrue /\ UnderUpgrade # ConditionTrue) =>
          /\ ~h.countFailed
          /\ loc.err = "nil"
          /\ (~h.extWrote => live.partition = loc.n)]_vars

\* C18: in each entry point UpgradePhase goes from NodeRestarting to
\* RecoveringData only in the step that refreshes the hashes, and that step
\* directly follows a rejoin wait, made after the loop, that ended on an
\* observed node count of at least node.clusterSize.
C18_RejoinBeforeRecovering ==
    [][(UpgradePhase = NodeRestarting /\ UpgradePhase' = RecoveringData) =>
          /\ pc \in {"rr_refresh", "fr_refresh", "u_refresh"}
          /\ configmapHash' \in HashValues
          /\ secretHash' \in HashValues
          /\ h.poll.kind = "rejoin"
          /\ h.poll.ok
          /\ h.poll.n >= clusterSize]_vars

\* C18 for rollingRestart and update, with the poll taken by its count only.
C18_RejoinBeforeRecovering_TwoOfThree ==
    [][(UpgradePhase = NodeRestarting /\ UpgradePhase' = RecoveringData
           /\ h.ep # "fullClusterRestart") =>
          /\ pc \in {"rr_refresh", "u_refresh"}
          /\ configmapHash' \in HashValues
          /\ secretHash' \in HashValues
          /\ h.poll.kind = "rejoin"
          /\ h.poll.n >= clusterSize]_vars

\* fullClusterRestart alone: there is never a rejoin wait before the step.
C18_FullRestartWaits ==
    [][(UpgradePhase = NodeRestarting /\ UpgradePhase' = RecoveringData
           /\ h.ep = "fullClusterRestart") =>
          h.poll.kind = "rejoin"]_vars

\* C19: the loop of the NodeRestarting block goes on to a lower ordinal only
\* when the setPartition(index - 1) of the step returned nil, and the ordinal
\* it goes on with is the live partition (unless another writer changed the
\* object meanwhile).
C19_OrdinalFollowsPartition ==
    [][(pc \in {"rr_next", "fr_next", "u_leave"} /\ loc'.index # loc.index) =>
          /\ loc.err = "nil"
          /\ (~h.extWrote => loc'.index = live.partition)]_vars

WaitLabels ==
    {"rr_rejoin", "rr_leave", "rr_final", "fr_leave", "u_rejoin", "u_leave", "u_final"}

\* C20: whenever a call is at a membership wait, also a call that skipped
\* the start block because UnderUpgrade was true and that works on a handle
\* constructed for its reconcile pass, node.clusterSize is the node count the
\* start block of the upgrade cycle stored.
C20_ThresholdIsCycleSize ==
    pc \in WaitLabels => clusterSize = h.cycleSize

\* Where the threshold is not the stored count, it is 0, the zero value of
\* a handle constructed within the cycle.
C20_KeptHandle ==
    (pc \in WaitLabels /\ clusterSize # h.cycleSize) => clusterSize = 0

\* C21: progressUnshedulableNode writes nothing and deletes no pod when
\* isChanged answers false; when it answers true the call pushes the update,
\* reads the live partition p and calls DeletePod on the pod of ordinal p,
\* with no membership wait; when the push or the read of the partition
\* fails the call returns the error and deletes no pod.
C21_PushThenDelete ==
    (pc = "done" /\ h.ep = "progressUnshedulableNode") =>
        /\ h.poll.kind = "none"
        /\ h.retAt = "unchanged" => (~h.wrote /\ h.del = -1 /\ h.ret = "nil")
        /\ h.retAt \in {"push", "ordinal"} => (h.del = -1 /\ h.ret = "err")
        /\ h.retAt \in {"end", "delete"} => (h.pushed # "none" /\ h.del = h.res)
        /\ h.del # -1 => h.retAt \in {"end", "delete"}

\* C21 but for the push: a pod is deleted only after executeUpdate returned
\* nil, and it is the pod of the ordinal the partition was read as.
C21_DeleteAfterExecuteUpdate ==
    (pc = "done" /\ h.ep = "progressUnshedulableNode") =>
        /\ h.poll.kind = "none"
        /\ h.retAt = "unchanged" => (~h.wrote /\ h.del = -1 /\ h.ret = "nil")
        /\ h.retAt \in {"push", "ordinal"} => (h.del = -1 /\ h.ret = "err")
        /\ h.retAt \in {"end", "delete"} => h.del = h.res
        /\ h.del # -1 => h.retAt \in {"end", "delete"}

\* The cycle is complete.
Finished == UpgradePhase = ControllerUpdated /\ UnderUpgrade = ""

\* A leave wait no node count whatever could end.
HopelessLeave ==
    /\ pc \in {"rr_leave", "fr_leave", "u_leave"}
    /\ \A o \in NodeCountOutcomes : ~waitForNodeLeaveCluster(o)

\* A step in which something went wrong outside the code: another writer
\* acted; a call returned early (health not green, a failed query, read or
\* write, a wait that timed out though some count would have ended it); a
\* setter, create or isChanged met an error or a conflict; a wait ended on
\* a failed query.
Mishap ==
    \/ pc' = pc /\ live' # live
    \/ /\ pc' = "done" /\ pc # "done"
       /\ h'.retAt \notin {"end", "unchanged"}
       /\ ~(HopelessLeave /\ h'.retAt = "leave")
    \/ loc'.err # "nil" /\ loc.err = "nil"
    \/ pc \in UpdateLabels /\ pc' \in {"sp_get", "sr_get", "eu_changed"}
    \/ h'.countFailed /\ ~h.countFailed
    \/ self'.partition = NilReplicas /\ self.partition # NilReplicas
    \/ pc \in WaitLabels /\ pc' # "done" /\ ~h'.poll.ok

\* C22: if from some point on nothing goes wrong outside the code (health
\* green, reads and writes succeed, no other writer, every wait that a node
\* count can end does end), the calls of the entry points bring the status
\* to ControllerUpdated with UnderUpgrade cleared.  (The cycles looked at are
\* those whose start block was told of one node at least.)
C22_CycleCompletes ==
    (<>[][~Mishap]_vars /\ [](h.cycleSize # 0)) => []<>Finished

\* C22 for the runs in which no leave wait is made with a threshold that
\* no node count is below.
C22_CycleCompletes_Threshold ==
    (<>[][~Mishap]_vars /\ []~HopelessLeave) => []<>Finished

\* C23: in every sequence of calls of the entry points from the idle status,
\* UpgradePhase is NodeRestarting or RecoveringData only with UnderUpgrade
\* true (at every return, and in between), and a call that is past its
\* start block, where UnderUpgrade was or became true, and has cleared it
\* has set UpgradePhase to ControllerUpdated.
C23_PhaseUnderUpgrade ==
    /\ UpgradePhase \in {NodeRestarting, RecoveringData} =>
           UnderUpgrade = ConditionTrue
    /\ (h.ep \in EntryPoints /\ h.started /\ UnderUpgrade # ConditionTrue) =>
           UpgradePhase = ControllerUpdated

\* A call resumed a cycle in NodeRestarting and completed it.
C23_Witness ==
    /\ pc = "done"
    /\ h.ep \in EntryPoints
    /\ h.entryUnder = ConditionTrue
    /\ h.entryPhase = NodeRestarting
    /\ UnderUpgrade = ""
    /\ UpgradePhase = ControllerUpdated

\* C24: update returns nil if and only if, at its return, UpgradePhase is
\* ControllerUpdated and UnderUpgrade is cleared.
C24_NilIffFinished ==
    (pc = "done" /\ h.ep = "update") => (h.ret = "nil" <=> Finished)

\* C24 as the code has it: update returns nil only at its end, with
\* UpgradePhase ControllerUpdated and UnderUpgrade cleared, and every return
\* that leaves the cycle unfinished is an error; an error with the status at
\* ControllerUpdated and cleared is that of a call which found the status
\* so and returned from its start block (health not green, replicas not
\* read), leaving it untouched.
C24_NilOnlyIfFinished ==
    (pc = "done" /\ h.ep = "update") =>
        /\ h.ret \in {"nil", "err"}
        /\ h.ret = "nil" => (Finished /\ h.retAt = "end")
        /\ ~Finished => h.ret = "err"
        /\ (Finished /\ h.ret = "err") =>
               /\ h.retAt \in {"health", "replicas"}
               /\ h.entryUnder # ConditionTrue
               /\ h.entryPhase = ControllerUpdated

\* update, called on the status a completed cycle left, found the cluster
\* not green: an error, and the status is still that of the completed cycle.
C24_Witness ==
    /\ pc = "done"
    /\ h.ep = "update"
    /\ h.ret = "err"
    /\ h.retAt = "health"
    /\ Finished

====
